---------------------------- MODULE Spec2Model ----------------------------
(***************************************************************************)
(* A model of src/main.py, the Baidu OCR plugin (class OCRPlugin).         *)
(*                                                                         *)
(* Processes: process 0 is the host's call of initialize(); processes      *)
(* 1 and 2 are invocations of the command handler ocr_command, which the   *)
(* host may dispatch concurrently.  Every coroutine runs atomically        *)
(* between two awaits (asyncio is cooperative), so one action of the model *)
(* is the code between two suspension points of one process.  A cleanup    *)
(* task (cleanup_files) is a detached task per invocation.                 *)
(*                                                                         *)
(* Texts are sequences of atoms.  The atoms " " and "\n" are white space;  *)
(* every other atom stands for a run of non-blank characters.  The Chinese *)
(* literals of the source are written as ASCII atoms, the original literal *)
(* is given in the comment of each.                                        *)
(***************************************************************************)
EXTENDS Integers, Sequences, FiniteSets, TLC

\* ------------------------------------------------------------------ bounds
MaxTime == 1         \* the clock may always advance up to this second
MaxWords == 4        \* elements of a words_result whose text is checked

\* ------------------------------------------------------- program constants
RefreshMargin == 300 \* main.py:65  "- 300"
CleanupDelay == 3    \* main.py:167 asyncio.sleep(3)

\* -------------------------------------------------------------- value sets
Invs == {1, 2}       \* two invocations of ocr_command, dispatched concurrently
Procs == {0} \cup Invs
FileIds == {"f1", "f2"}
Tokens == {"tokA", "tokB"}
None == "None"
NoPath == <<"", "">>
NoFile == "absent"
Partial == "partial" \* the content of a file whose write did not complete
Orig(f) == <<"orig", f>>
\* main.py:113  os.path.join(self.temp_dir, f"ocr_{int(time.time())}.jpg")
Tmp(t) == <<"astrbot_ocr/ocr_", ToString(t)>>

\* expires_in values the token endpoint may answer with
ExpiresIns == {RefreshMargin, RefreshMargin + 2}

IsWs(c) == c \in {" ", "\n"}

\* ------------------------------------------------------------- text (pure)
RECURSIVE LStrip(_)
LStrip(s) == IF s # <<>> /\ IsWs(Head(s)) THEN LStrip(Tail(s)) ELSE s

RECURSIVE RStrip(_)
RStrip(s) ==
  IF s # <<>> /\ IsWs(s[Len(s)]) THEN RStrip(SubSeq(s, 1, Len(s) - 1)) ELSE s

\* str.strip()
Strip(s) == RStrip(LStrip(s))

\* '\n'.join(text_list)
RECURSIVE Join(_)
Join(ws) ==
  IF ws = <<>> THEN <<>>
  ELSE IF Len(ws) = 1 THEN ws[1]
  ELSE ws[1] \o <<"\n">> \o Join(Tail(ws))

\* The match of \n\n, without the \s* between the newlines
MatchEnd_EmptyLinesOnly(s, i) ==
  IF s[i] = "\n" /\ i < Len(s) /\ s[i + 1] = "\n" THEN i + 1 ELSE 0

\* The end of the match of \n\s*\n that starts at position i of s, or 0 when
\* there is none: \s* is greedy, so the match ends at the last newline of the
\* white-space run that follows position i.
MatchEnd(s, i) ==
  LET ends == {j \in (i + 1)..Len(s) :
                 /\ s[j] = "\n"
                 /\ \A k \in (i + 1)..j : IsWs(s[k])}
  IN  IF s[i] = "\n" /\ ends # {}
      THEN CHOOSE j \in ends : \A k \in ends : k <= j
      ELSE 0

\* re.sub(r'\n\s*\n', '\n', s) from position i on: leftmost matches, not
\* overlapping.
RECURSIVE ReSubFrom(_, _)
ReSubFrom(s, i) ==
  IF i > Len(s) THEN <<>>
  ELSE IF MatchEnd(s, i) # 0
       THEN <<"\n">> \o ReSubFrom(s, MatchEnd(s, i) + 1)
       ELSE <<s[i]>> \o ReSubFrom(s, i + 1)

ReSub(s) == ReSubFrom(s, 1)

\* main.py:156-159
NormalizeText(words) == Strip(ReSub(Join(words)))


\* ---------------------------------------------------------------- literals
MsgNoImage == "please send an image containing text"    \* main.py:183 请发送一张包含文字的图片
MsgDownloadFailed == "image download failed"            \* main.py:191 图片下载失败
MsgNoText == "no text recognized, check image clarity"  \* main.py:206 未识别到文字，请检查图片清晰度
MsgSuccessPrefix == "text content in the image:"        \* main.py:208 图片中的文字内容：
MsgAuthFailed == "OCR service authentication failed"    \* main.py:128 OCR服务认证失败
MsgOcrFailedPrefix == "OCR recognition failed:"         \* main.py:154 OCR识别失败:
MsgUnknownError == "unknown error"                      \* main.py:152 未知错误
MsgHandlerFailedPrefix == "OCR processing failed:"      \* main.py:212 OCR处理失败:

\* ------------------------------------------------------------------ inputs
\* A message component is an Image with a file id, or something else.
Plain == "plain"
Components == FileIds \cup {Plain}
Events == {<<>>, <<Plain>>, <<"f1">>, <<Plain, "f2", "f1">>}

ConvertOutcomes == {"path", "none", "raise"}    \* main.py:94-95
GetImageOutcomes == {"file", "nofile", "raise"}  \* main.py:103-110
WriteOutcomes == {"ok", "open", "write"}         \* main.py:114-115

\* Answers of the token endpoint (main.py:59-60): a token with its lifetime,
\* a token without expires_in, an error document, or a transport/parse
\* exception.
TokenResponses ==
  [kind : {"ok"}, tok : Tokens, expires_in : ExpiresIns]
    \cup [kind : {"noexp"}, tok : Tokens, expires_in : {0}]
    \cup [kind : {"err", "exc"}, tok : {None}, expires_in : {0}]

ErrMsgs == {<<"daily", " ", "request", " ", "limit", " ", "reached">>}
WordLists ==
  { <<>>,
    << <<" ">>, <<>> >>,
    << <<"A">>, <<>>, <<" ">>, <<"B", " ">> >> }

\* Answers of the recognition endpoint (main.py:148-149): an error document
\* with or without error_msg, a result with or without words_result, or a
\* transport/parse exception (a result element without 'words' included).
OcrResponses ==
  [kind : {"error"}, has_msg : {TRUE}, msg : ErrMsgs, words : {<<>>}]
    \cup [kind : {"error"}, has_msg : {FALSE}, msg : {<<>>}, words : {<<>>}]
    \cup [kind : {"words"}, has_msg : {FALSE}, msg : {<<>>}, words : WordLists]
    \cup [kind : {"nowords", "exc"}, has_msg : {FALSE}, msg : {<<>>}, words : {<<>>}]

\* ------------------------------------------------------------------- state
VARIABLES
  api_key,            \* main.py:28  TRUE iff a non-empty key is configured
  secret_key,         \* main.py:29
  access_token,       \* main.py:23
  token_expire_time,  \* main.py:25
  now,                \* time.time(), in whole seconds
  fs,                 \* the file system: path -> content, or NoFile
  pc,                 \* where each process is suspended
  messages,           \* event.get_messages() of each invocation
  temp_path,          \* main.py:189
  original_path,      \* main.py:189
  token,              \* main.py:126
  replies,            \* the results each invocation has yielded to the host
  task,               \* the cleanup task each invocation created (main.py:203)
  nDownload,          \* calls of download_image, per invocation
  nTokenReq,          \* POSTs to token_url, per process
  nOcrReq             \* POSTs to ocr_url, per invocation

vars == <<api_key, secret_key, access_token, token_expire_time, now, fs, pc,
          messages, temp_path, original_path, token, replies, task,
          nDownload, nTokenReq, nOcrReq>>

Paths == {Orig(f) : f \in FileIds} \cup {Tmp(t) : t \in 1..(MaxTime + Cardinality(Invs) * CleanupDelay)}

NoTask == [st |-> "none", paths |-> <<>>, wake |-> 0]

\* main.py:18-35
Init ==
  /\ api_key \in BOOLEAN
  /\ secret_key \in BOOLEAN
  /\ access_token = None
  /\ token_expire_time = 0
  /\ now = 1
  /\ fs = [p \in Paths |-> NoFile]
  /\ pc = [p \in Procs |-> "idle"]
  /\ messages = [i \in Invs |-> <<>>]
  /\ temp_path = [i \in Invs |-> NoPath]
  /\ original_path = [i \in Invs |-> NoPath]
  /\ token = [i \in Invs |-> None]
  /\ replies = [i \in Invs |-> <<>>]
  /\ task = [i \in Invs |-> NoTask]
  /\ nDownload = [i \in Invs |-> 0]
  /\ nTokenReq = [p \in Procs |-> 0]
  /\ nOcrReq = [i \in Invs |-> 0]


\* ------------------------------------------------- get_access_token (pure)
Configured == api_key /\ secret_key

\* line 48 with <= for <: the token is served at its expiry time too
CacheWarm_Inclusive == access_token # None /\ now <= token_expire_time

\* main.py:48  the cache holds a token that has not expired
CacheWarm == access_token # None /\ now < token_expire_time

\* get_access_token without the cache test of line 48
GetTokenStart_NoCacheTest ==
  IF ~Configured THEN [k |-> "ret", v |-> None] ELSE [k |-> "post", v |-> None]

\* get_access_token without the credentials test of lines 45-46
GetTokenStart_NoCredentialsTest ==
  IF CacheWarm THEN [k |-> "ret", v |-> access_token]
  ELSE [k |-> "post", v |-> None]

\* main.py:45-59  get_access_token up to its first suspension: it returns
\* None, returns the cached token, or sends one POST and awaits the answer.
GetTokenStart ==
  IF ~Configured THEN [k |-> "ret", v |-> None]
  ELSE IF CacheWarm THEN [k |-> "ret", v |-> access_token]
  ELSE [k |-> "post", v |-> None]

\* get_access_token dropping the cached token when the exchange fails
GetTokenFinish_DropsCacheOnFailure(resp) ==
  CASE resp.kind = "ok" ->
         [ret |-> resp.tok, at |-> resp.tok,
          exp |-> now + resp.expires_in - RefreshMargin]
    [] OTHER -> [ret |-> None, at |-> None, exp |-> 0]

\* get_access_token giving the caller the token another exchange has cached
\* meanwhile, and dropping its own answer
GetTokenFinish_FirstWins(resp) ==
  CASE resp.kind = "ok" /\ access_token = None ->
         [ret |-> resp.tok, at |-> resp.tok,
          exp |-> now + resp.expires_in - RefreshMargin]
    [] resp.kind = "noexp" ->
         [ret |-> None, at |-> resp.tok, exp |-> token_expire_time]
    [] OTHER ->
         [ret |-> IF resp.kind = "ok" THEN access_token ELSE None,
          at |-> access_token, exp |-> token_expire_time]

\* main.py:60-73  get_access_token from the answer on: the value returned
\* and the cache it leaves.
GetTokenFinish(resp) ==
  CASE resp.kind = "ok" ->
         [ret |-> resp.tok, at |-> resp.tok,
          exp |-> now + resp.expires_in - RefreshMargin]
    [] resp.kind = "noexp" ->
         \* line 63 has assigned the token when line 65 raises KeyError
         [ret |-> None, at |-> resp.tok, exp |-> token_expire_time]
    [] OTHER ->
         [ret |-> None, at |-> access_token, exp |-> token_expire_time]

\* ------------------------------------------------------ ocr_command (pure)
\* line 180 without its isinstance test
Images_NoFilter(msgs) == msgs

\* main.py:180
Images(msgs) == SelectSeq(msgs, LAMBDA m : m \in FileIds)

\* main.py:84-88  the first Image whose file is file_id, or None
FindImage(msgs, file_id) ==
  IF \E k \in 1..Len(msgs) : msgs[k] = file_id THEN file_id ELSE None

Exists(f, path) == path # NoPath /\ f[path] # NoFile

\* What a step of an invocation leaves behind: where it suspends or ends,
\* the token and text it holds, what it yields, the files whose cleanup it
\* schedules, and whether it sent a request to ocr_url.
Plan(pcv, tok, txt, rep, files, ocr) ==
  [pc |-> pcv, tok |-> tok, txt |-> txt, rep |-> rep, files |-> files,
   ocr |-> ocr]

\* main.py:205-208
ReplyFor(txt) ==
  IF Strip(txt) = <<>> THEN <<MsgNoText>>
  ELSE <<MsgSuccessPrefix, "\n">> \o txt

\* main.py:195-200
FilesToDelete(f, tp, op) ==
  (IF Exists(f, tp) THEN <<tp>> ELSE <<>>)
    \o (IF Exists(f, op) THEN <<op>> ELSE <<>>)

\* lines 195-208 with the cleanup scheduled only beside the success reply
HandlerTail_CleanupOnSuccessOnly(tok, txt, f, tp, op) ==
  Plan("done", tok, txt, <<ReplyFor(txt)>>,
       IF Strip(txt) = <<>> THEN <<>> ELSE FilesToDelete(f, tp, op), 0)

\* lines 205-208 without the else: a blank text gets both replies
HandlerTail_NoElse(tok, txt, f, tp, op) ==
  Plan("done", tok, txt,
       IF Strip(txt) = <<>>
       THEN <<<<MsgNoText>>, <<MsgSuccessPrefix, "\n">> \o txt>>
       ELSE <<<<MsgSuccessPrefix, "\n">> \o txt>>,
       FilesToDelete(f, tp, op), 0)

\* lines 202-203 awaiting cleanup_files where the code creates a task: the
\* reply of lines 205-208 comes only when the cleanup has run
HandlerTail_AwaitsCleanup(tok, txt, f, tp, op) ==
  Plan("cleanup", tok, txt, <<>>, FilesToDelete(f, tp, op), 0)

\* main.py:195-208  ocr_command once _perform_ocr has returned txt
HandlerTail(tok, txt, f, tp, op) ==
  Plan("done", tok, txt, <<ReplyFor(txt)>>, FilesToDelete(f, tp, op), 0)

\* _perform_ocr without the token test of lines 127-128
PerformOcrWithToken_NoTokenTest(tok, f, tp, op) ==
  IF ~Exists(f, tp)
  THEN HandlerTail(tok, <<>>, f, tp, op)
  ELSE Plan("ocr", tok, <<>>, <<>>, <<>>, 1)

\* main.py:127-148  _perform_ocr once get_access_token has returned tok
PerformOcrWithToken(tok, f, tp, op) ==
  IF tok = None THEN HandlerTail(tok, <<MsgAuthFailed>>, f, tp, op)
  ELSE IF ~Exists(f, tp)
       THEN HandlerTail(tok, <<>>, f, tp, op)   \* open raises: lines 161-163
       ELSE Plan("ocr", tok, <<>>, <<>>, <<>>, 1)

\* _perform_ocr without the error_code test of lines 151-154
OcrText_IgnoresErrorCode(resp) ==
  CASE resp.kind = "words" -> NormalizeText(resp.words)
    [] resp.kind \in {"nowords", "error"} -> NormalizeText(<<>>)
    [] OTHER -> <<>>

\* _perform_ocr whose except clause returns a message, as lines 128 and 154
\* do, and not the empty string
OcrText_ExceptionAsMessage(resp) ==
  CASE resp.kind = "error" ->
         <<MsgOcrFailedPrefix, " ">>
           \o (IF resp.has_msg THEN resp.msg ELSE <<MsgUnknownError>>)
    [] resp.kind = "words" -> NormalizeText(resp.words)
    [] resp.kind = "nowords" -> NormalizeText(<<>>)
    [] OTHER -> <<MsgOcrFailedPrefix>>

\* main.py:149-163  _perform_ocr from the answer of ocr_url on
OcrText(resp) ==
  CASE resp.kind = "error" ->
         <<MsgOcrFailedPrefix, " ">>
           \o (IF resp.has_msg THEN resp.msg ELSE <<MsgUnknownError>>)
    [] resp.kind = "words" -> NormalizeText(resp.words)
    [] resp.kind = "nowords" -> NormalizeText(<<>>)
    [] OTHER -> <<>>

\* main.py:210-212  the handler's except clause
HandlerExcept == Plan("done", None, <<>>, <<<<MsgHandlerFailedPrefix, " ">>>>, <<>>, 0)

\* main.py:186, 210  the try statement of ocr_command around a step of its
\* body: a step that ends by raising ends in the except clause.
Try(plan) == IF plan.pc = "raise" THEN HandlerExcept ELSE plan

\* lines 190-192 without the return: the handler goes on to recognition
DownloadFailed_NoReturn ==
  Plan("ocr", None, <<>>, <<<<MsgDownloadFailed>>>>, <<>>, 1)

\* main.py:189-192  ocr_command when download_image returned ("", None)
DownloadFailed == Plan("done", None, <<>>, <<<<MsgDownloadFailed>>>>, <<>>, 0)

\* main.py:194, 126  ocr_command once download_image returned (tp, op):
\* _perform_ocr runs up to its first suspension.
AfterDownload(f, tp, op) ==
  IF GetTokenStart.k = "ret"
  THEN PerformOcrWithToken(GetTokenStart.v, f, tp, op)
  ELSE Plan("token", None, <<>>, <<>>, <<>>, 0)

\* The POST to token_url that a step sends, if it calls get_access_token.
TokenPost(calls) == IF calls /\ GetTokenStart.k = "post" THEN 1 ELSE 0

\* ----------------------------------------------------------------- actions
\* The locals of an invocation after a step that leaves it at plan.pc with
\* temp_path tp and original_path op.  They go out of scope when the handler
\* returns.
Apply(i, plan, posts, msgs, tp, op) ==
  /\ pc' = [pc EXCEPT ![i] = plan.pc]
  /\ messages' = [messages EXCEPT ![i] = IF plan.pc = "done" THEN <<>> ELSE msgs]
  /\ temp_path' = [temp_path EXCEPT ![i] = IF plan.pc = "done" THEN NoPath ELSE tp]
  /\ original_path' =
       [original_path EXCEPT ![i] = IF plan.pc = "done" THEN NoPath ELSE op]
  /\ token' = [token EXCEPT ![i] = IF plan.pc = "done" THEN None ELSE plan.tok]
  /\ replies' = [replies EXCEPT ![i] = @ \o plan.rep]
  /\ task' = IF plan.files # <<>>
             THEN [task EXCEPT ![i] = [st |-> "sleeping", paths |-> plan.files,
                                       wake |-> now + CleanupDelay]]
             ELSE task
  /\ nOcrReq' = [nOcrReq EXCEPT ![i] = @ + plan.ocr]
  /\ nTokenReq' = [nTokenReq EXCEPT ![i] = @ + posts]

\* A step of the handler's body inside its try statement (main.py:186-208)
InTry(i, plan, posts, msgs, tp, op) == Apply(i, Try(plan), posts, msgs, tp, op)

\* main.py:37-41  initialize(), up to the first suspension
Initialize ==
  /\ pc[0] = "idle"
  /\ pc' = [pc EXCEPT ![0] = IF TokenPost(Configured) = 1 THEN "token" ELSE "done"]
  /\ nTokenReq' = [nTokenReq EXCEPT ![0] = @ + TokenPost(Configured)]
  /\ UNCHANGED <<api_key, secret_key, access_token, token_expire_time, now, fs,
                 messages, temp_path, original_path, token, replies, task,
                 nDownload, nOcrReq>>

\* main.py:177-189, 84-94  ocr_command on event ev, up to the first
\* suspension.  The host dispatches commands once initialize() has returned.
OcrCommand(i, ev) ==
  /\ pc[i] = "idle"
  /\ pc[0] = "done"
  /\ IF Images(ev) = <<>>
     THEN /\ Apply(i, Plan("done", None, <<>>, <<<<MsgNoImage>>>>, <<>>, 0), 0,
                   ev, NoPath, NoPath)
          /\ UNCHANGED nDownload
     ELSE /\ nDownload' = [nDownload EXCEPT ![i] = @ + 1]
          /\ IF FindImage(ev, Images(ev)[1]) = None
             THEN InTry(i, DownloadFailed, 0, ev, NoPath, NoPath)
             ELSE InTry(i, Plan("convert", None, <<>>, <<>>, <<>>, 0), 0,
                        ev, NoPath, NoPath)
  /\ UNCHANGED <<api_key, secret_key, access_token, token_expire_time, now, fs>>

\* main.py:112-117, 189-203  download_image has the bytes read from path op
\* and writes the temporary file: w = "ok", the write succeeds and the
\* handler goes on into _perform_ocr; "open", open() raises; "write",
\* f.write() raises and leaves the file it has opened.
Downloaded(i, f1, op, w) ==
  IF w = "ok"
  THEN LET f2 == [f1 EXCEPT ![Tmp(now)] = f1[op]]
       IN  /\ fs' = f2
           /\ InTry(i, AfterDownload(f2, Tmp(now), op), TokenPost(TRUE),
                    messages[i], Tmp(now), op)
  ELSE /\ fs' = IF w = "write" THEN [f1 EXCEPT ![Tmp(now)] = Partial] ELSE f1
       /\ InTry(i, DownloadFailed, 0, messages[i], NoPath, NoPath)

\* download_image called for the last image of the event (images[-1] in
\* line 188)
ConvertReturns_LastImage(i, outcome, w) ==
  /\ pc[i] = "convert"
  /\ LET file_id == Images(messages[i])[Len(Images(messages[i]))]
     IN  CASE outcome = "path" ->
                Downloaded(i, [fs EXCEPT ![Orig(file_id)] = file_id],
                           Orig(file_id), w)
           [] outcome = "none" ->
                /\ InTry(i, Plan("get_image", None, <<>>, <<>>, <<>>, 0), 0,
                         messages[i], NoPath, NoPath)
                /\ UNCHANGED fs
           [] OTHER ->
                /\ InTry(i, DownloadFailed, 0, messages[i], NoPath, NoPath)
                /\ UNCHANGED fs
  /\ UNCHANGED <<api_key, secret_key, access_token, token_expire_time, now,
                 nDownload>>

\* main.py:94-99  convert_to_file_path() answers: "path", a path of a file
\* that exists; "none", no path or a path of no file; "raise", an exception.
ConvertReturns(i, outcome, w) ==
  /\ pc[i] = "convert"
  /\ LET file_id == Images(messages[i])[1]
     IN  CASE outcome = "path" ->
                Downloaded(i, [fs EXCEPT ![Orig(file_id)] = file_id],
                           Orig(file_id), w)
           [] outcome = "none" ->
                /\ InTry(i, Plan("get_image", None, <<>>, <<>>, <<>>, 0), 0,
                         messages[i], NoPath, NoPath)
                /\ UNCHANGED fs
           [] OTHER ->
                /\ InTry(i, DownloadFailed, 0, messages[i], NoPath, NoPath)
                /\ UNCHANGED fs
  /\ UNCHANGED <<api_key, secret_key, access_token, token_expire_time, now,
                 nDownload>>

\* main.py:103-110  call_action("get_image") answers: "file", the path of a
\* readable file; "nofile", a result without file; "raise", an exception of
\* the call or of reading the file.
GetImageReturns(i, outcome, w) ==
  /\ pc[i] = "get_image"
  /\ LET file_id == Images(messages[i])[1]
     IN  CASE outcome = "file" ->
                Downloaded(i, [fs EXCEPT ![Orig(file_id)] = file_id],
                           Orig(file_id), w)
           [] OTHER ->
                /\ InTry(i, DownloadFailed, 0, messages[i], NoPath, NoPath)
                /\ UNCHANGED fs
  /\ UNCHANGED <<api_key, secret_key, access_token, token_expire_time, now,
                 nDownload>>

\* main.py:60-73, then 41 or 127-148 and 195-208: the token endpoint answers
TokenResponse(p, resp) ==
  /\ pc[p] = "token"
  /\ access_token' = GetTokenFinish(resp).at
  /\ token_expire_time' = GetTokenFinish(resp).exp
  /\ IF p = 0
     THEN /\ pc' = [pc EXCEPT ![0] = "done"]
          /\ UNCHANGED <<messages, temp_path, original_path, token, replies,
                         task, nOcrReq, nTokenReq>>
     ELSE InTry(p, PerformOcrWithToken(GetTokenFinish(resp).ret, fs,
                                       temp_path[p], original_path[p]), 0,
                messages[p], temp_path[p], original_path[p])
  /\ UNCHANGED <<api_key, secret_key, now, fs, nDownload>>

\* main.py:149-163, 195-208: the recognition endpoint answers
OcrResponse(i, resp) ==
  /\ pc[i] = "ocr"
  /\ InTry(i, HandlerTail(token[i], OcrText(resp), fs, temp_path[i],
                          original_path[i]), 0,
           messages[i], temp_path[i], original_path[i])
  /\ UNCHANGED <<api_key, secret_key, access_token, token_expire_time, now, fs,
                 nDownload>>

PathSet(paths) == {paths[k] : k \in 1..Len(paths)}

\* cleanup_files with the try statement of lines 170-174 around the loop and
\* not inside it: the first unlink that fails ends the run
CleanupFiles_StopsAtFailure(i, failed) ==
  /\ task[i].st = "sleeping"
  /\ now >= task[i].wake
  /\ fs' = [p \in Paths |->
              IF \E k \in 1..Len(task[i].paths) :
                   /\ task[i].paths[k] = p
                   /\ \A m \in 1..k : task[i].paths[m] \notin failed
              THEN NoFile ELSE fs[p]]
  /\ task' = [task EXCEPT ![i] = [st |-> "finished", paths |-> <<>>, wake |-> 0]]
  /\ UNCHANGED <<api_key, secret_key, access_token, token_expire_time, now, pc,
                 messages, temp_path, original_path, token, replies,
                 nDownload, nTokenReq, nOcrReq>>

\* main.py:165-174  cleanup_files after its sleep; unlink fails for the
\* paths in failed.
CleanupFiles(i, failed) ==
  /\ task[i].st = "sleeping"
  /\ now >= task[i].wake
  /\ fs' = [p \in Paths |->
              IF p \in PathSet(task[i].paths) /\ p \notin failed
              THEN NoFile ELSE fs[p]]
  /\ task' = [task EXCEPT ![i] = [st |-> "finished", paths |-> <<>>, wake |-> 0]]
  /\ UNCHANGED <<api_key, secret_key, access_token, token_expire_time, now, pc,
                 messages, temp_path, original_path, token, replies,
                 nDownload, nTokenReq, nOcrReq>>

\* A second passes.  The clock is capped at MaxTime, except that it goes on
\* while a cleanup task still sleeps.
Tick ==
  /\ (now < MaxTime) \/ (\E i \in Invs : task[i].st = "sleeping" /\ now < task[i].wake)
  /\ now' = now + 1
  /\ UNCHANGED <<api_key, secret_key, access_token, token_expire_time, fs, pc,
                 messages, temp_path, original_path, token, replies, task,
                 nDownload, nTokenReq, nOcrReq>>

Next ==
  \/ Initialize
  \/ \E i \in Invs, ev \in Events : OcrCommand(i, ev)
  \/ \E i \in Invs, o \in ConvertOutcomes, w \in WriteOutcomes :
       ConvertReturns(i, o, w)
  \/ \E i \in Invs, o \in GetImageOutcomes, w \in WriteOutcomes :
       GetImageReturns(i, o, w)
  \/ \E p \in Procs, resp \in TokenResponses : TokenResponse(p, resp)
  \/ \E i \in Invs, resp \in OcrResponses : OcrResponse(i, resp)
  \/ \E i \in Invs :
       \E failed \in SUBSET PathSet(task[i].paths) : CleanupFiles(i, failed)
  \/ Tick

Spec == Init /\ [][Next]_vars


\* ================================================================== claims
\* What the claims say of a step is said of the step itself: "the step is
\* A(i, x)" is the action formula A(i, x), read on the two states of the step.

AuthFailedReply == <<MsgSuccessPrefix, "\n", MsgAuthFailed>>

\* The step in which invocation i has its image and calls _perform_ocr, and
\* with it get_access_token (main.py:194, 126).
CallsGetToken(i) ==
  \/ \E o \in {"path"} : ConvertReturns(i, o, "ok")
  \/ \E o \in {"file"} : GetImageReturns(i, o, "ok")

\* ---------------------------------------------------------------------- C1
\* C1: with both keys configured, a call of get_access_token made while the
\* cache holds a token and now < token_expire_time returns the cached token,
\* sends nothing to the token endpoint and leaves the cache as it is; a call
\* made with a cold or expired cache sends exactly one request, and neither
\* the answer (a success or a failure) nor anything else makes the caller
\* send a second one.
C1_Calls ==
  /\ \A i \in Invs :
       (Configured /\ CallsGetToken(i)) =>
         IF access_token # None /\ now < token_expire_time
         THEN /\ pc'[i] = "ocr"
              /\ token'[i] = access_token
              /\ nTokenReq'[i] = nTokenReq[i]
              /\ access_token' = access_token
              /\ token_expire_time' = token_expire_time
         ELSE /\ pc'[i] = "token"
              /\ nTokenReq'[i] = nTokenReq[i] + 1
  /\ (Configured /\ Initialize) =>
       IF access_token # None /\ now < token_expire_time
       THEN pc'[0] = "done" /\ nTokenReq'[0] = nTokenReq[0]
       ELSE pc'[0] = "token" /\ nTokenReq'[0] = nTokenReq[0] + 1
  /\ \A p \in Procs :
       \* no step but the call itself sends a request
       (nTokenReq'[p] # nTokenReq[p]) =>
         IF p = 0 THEN Initialize ELSE CallsGetToken(p)

C1_WarmCacheNoRequest ==
  /\ [][C1_Calls]_vars
  /\ [](\A p \in Procs : nTokenReq[p] <= 1 /\ (pc[p] = "token" => nTokenReq[p] = 1))

\* One invocation found the cache cold and got its token with one request;
\* the other was then served that token from the cache.
C1_Witness ==
  \E i, j \in Invs :
    /\ pc[j] = "ocr" /\ nTokenReq[j] = 1 /\ token[j] = access_token
    /\ pc[i] = "ocr" /\ nTokenReq[i] = 0 /\ token[i] = access_token
    /\ now < token_expire_time

\* ---------------------------------------------------------------------- C2
\* C2: if api_key or secret_key is empty, no request is ever sent to the
\* token endpoint and the cache stays empty, whatever was called before;
\* every call of get_access_token returns no token (the invocation ends with
\* the authentication-failed text), and initialize() returns at once.
C2_Calls ==
  /\ \A i \in Invs :
       CallsGetToken(i) =>
         /\ pc'[i] = "done"
         /\ replies'[i] = <<AuthFailedReply>>
         /\ nOcrReq'[i] = nOcrReq[i]
  /\ Initialize => pc'[0] = "done"

C2_NotConfiguredNoRequest ==
  /\ [][~(api_key /\ secret_key) => C2_Calls]_vars
  /\ [](~(api_key /\ secret_key) =>
          /\ \A p \in Procs : nTokenReq[p] = 0 /\ pc[p] # "token"
          /\ access_token = None
          /\ token_expire_time = 0)

\* Without a secret key, initialize() has returned and both invocations have
\* called get_access_token, one after the other.
C2_Witness ==
  /\ api_key /\ ~secret_key
  /\ pc[0] = "done"
  /\ \A i \in Invs : pc[i] = "done" /\ replies[i] = <<AuthFailedReply>>


\* ---------------------------------------------------------------------- C3
\* C3: when the exchange fails by a transport or parse exception, or the
\* answer holds no access_token, get_access_token returns no token (an
\* invocation ends with the authentication-failed text, without a request to
\* the recognition endpoint) and access_token and token_expire_time are
\* exactly what they were: neither the step that sends the request nor the
\* step that takes the failing answer changes them.
C3_Step ==
  /\ \A p \in Procs, resp \in TokenResponses :
       (resp.kind \in {"err", "exc"} /\ TokenResponse(p, resp)) =>
         /\ access_token' = access_token
         /\ token_expire_time' = token_expire_time
         /\ pc'[p] = "done"
         /\ p \in Invs => /\ replies'[p] = <<AuthFailedReply>>
                          /\ nOcrReq'[p] = nOcrReq[p]
  /\ \A p \in Procs :
       (pc[p] # "token" /\ pc'[p] = "token") =>
         /\ access_token' = access_token
         /\ token_expire_time' = token_expire_time

C3_FailedExchangeKeepsCache == [][C3_Step]_vars

\* An invocation whose one exchange did not give it a token has ended, and
\* the cache still holds a token with the expiry a successful exchange set.
C3_Witness ==
  \E i \in Invs :
    /\ pc[i] = "done" /\ nTokenReq[i] = 1 /\ replies[i] = <<AuthFailedReply>>
    /\ access_token \in Tokens
    /\ token_expire_time > 0

\* ---------------------------------------------------------------------- C4
NoImageAttachment(ev) == \A k \in 1..Len(ev) : ev[k] \notin FileIds

\* C4: on an event without image attachment the handler yields the one
\* reply MsgNoImage and ends; it calls neither download_image nor
\* get_access_token nor the recognition endpoint, schedules no cleanup, and
\* leaves the token cache and the file system as they are.
C4_Step ==
  \A i \in Invs, ev \in Events :
    (NoImageAttachment(ev) /\ OcrCommand(i, ev)) =>
      /\ pc'[i] = "done"
      /\ replies'[i] = <<<<MsgNoImage>>>>
      /\ UNCHANGED <<access_token, token_expire_time, fs, task, nDownload,
                     nTokenReq, nOcrReq>>

C4_NoImageOnlyReplies ==
  /\ [][C4_Step]_vars
  /\ [](\A i \in Invs :
          replies[i] = <<<<MsgNoImage>>>> =>
            /\ pc[i] = "done"
            /\ nDownload[i] = 0 /\ nTokenReq[i] = 0 /\ nOcrReq[i] = 0
            /\ task[i] = NoTask)

\* An invocation without image has replied while the cache holds a token and
\* files of the other invocation exist.
C4_Witness ==
  \E i \in Invs :
    /\ replies[i] = <<<<MsgNoImage>>>>
    /\ access_token # None
    /\ \E p \in Paths : fs[p] # NoFile

\* ---------------------------------------------------------------------- C5
\* The steps in which download_image returns ("", None): no attachment with
\* the file id, an exception of the platform or of reading, a get_image
\* result without file, or a temporary file that cannot be written.
DownloadFails(i) ==
  \/ \E ev \in Events :
       /\ ~NoImageAttachment(ev)
       /\ ~(\E k \in 1..Len(ev) : ev[k] = Images(ev)[1])
       /\ OcrCommand(i, ev)
  \/ \E w \in WriteOutcomes : ConvertReturns(i, "raise", w)
  \/ \E w \in {"open", "write"} : ConvertReturns(i, "path", w)
  \/ \E o \in {"nofile", "raise"}, w \in WriteOutcomes : GetImageReturns(i, o, w)
  \/ \E w \in {"open", "write"} : GetImageReturns(i, "file", w)

\* C5: whenever download_image yields no local path the handler replies
\* MsgDownloadFailed and ends: _perform_ocr is not called, nothing is sent to
\* the token or the recognition endpoint, the cache is untouched and no
\* cleanup is scheduled.
C5_Step ==
  \A i \in Invs :
    DownloadFails(i) =>
      /\ pc'[i] = "done"
      /\ replies'[i] = replies[i] \o <<<<MsgDownloadFailed>>>>
      /\ nTokenReq'[i] = nTokenReq[i]
      /\ nOcrReq'[i] = nOcrReq[i]
      /\ UNCHANGED <<access_token, token_expire_time, task>>

C5_DownloadFailureStops ==
  /\ [][C5_Step]_vars
  /\ [](\A i \in Invs :
          (replies[i] # <<>> /\ replies[i][1] = <<MsgDownloadFailed>>) =>
            /\ pc[i] = "done" /\ Len(replies[i]) = 1
            /\ nDownload[i] = 1 /\ nTokenReq[i] = 0 /\ nOcrReq[i] = 0
            /\ task[i] = NoTask)

\* With both keys configured, one invocation's download failed after the
\* platform had produced the file; the other's failed too.
C5_Witness ==
  /\ api_key /\ secret_key
  /\ \A i \in Invs : pc[i] = "done" /\ replies[i] = <<<<MsgDownloadFailed>>>>
  /\ \E f \in FileIds : fs[Orig(f)] # NoFile


\* ---------------------------------------------------------------------- C6
\* The step in which _perform_ocr returns to the handler, whatever it
\* returns: at once for want of a token, on the token endpoint's answer, or
\* on the recognition endpoint's answer.
RecognitionReturns(i) ==
  \/ CallsGetToken(i) /\ pc'[i] = "done"
  \/ \E resp \in TokenResponses : TokenResponse(i, resp) /\ pc'[i] = "done"
  \/ \E resp \in OcrResponses : OcrResponse(i, resp)

\* The artifacts of invocation i in that step: its temporary copy and the
\* platform's file.
ArtifactsOf(i) ==
  IF pc[i] \in {"token", "ocr"}
  THEN {temp_path[i], original_path[i]}
  ELSE {Tmp(now), Orig(Images(messages[i])[1])}

\* C6: once download_image has succeeded, the step in which recognition
\* returns schedules a cleanup task, due CleanupDelay seconds later, for
\* exactly the artifact paths that exist at that moment, whatever recognition
\* returned.
C6_Step ==
  \A i \in Invs :
    RecognitionReturns(i) =>
      LET existing == {p \in ArtifactsOf(i) : fs'[p] # NoFile}
      IN  IF existing = {}
          THEN task'[i] = NoTask
          ELSE /\ task'[i].st = "sleeping"
               /\ task'[i].wake = now + CleanupDelay
               /\ PathSet(task'[i].paths) = existing

C6_CleanupAlwaysScheduled == [][C6_Step]_vars

IsInfix(part, whole) ==
  \E k \in 0..(Len(whole) - Len(part)) :
    SubSeq(whole, k + 1, k + Len(part)) = part

\* One invocation ended on a provider error, the other with a blank text;
\* the cleanup of both artifacts of each is scheduled.
C6_Witness ==
  \E i, j \in Invs :
    /\ pc[i] = "done" /\ IsInfix(<<MsgOcrFailedPrefix>>, replies[i][1])
    /\ task[i].st = "sleeping" /\ Len(task[i].paths) = 2
    /\ pc[j] = "done" /\ replies[j] = <<<<MsgNoText>>>>
    /\ task[j].st = "sleeping" /\ Len(task[j].paths) = 2

\* ---------------------------------------------------------------------- C7
\* C7: when the recognition endpoint's answer carries an error code, the
\* handler's one reply contains "OCR recognition failed: " followed by the
\* provider's error_msg (by MsgUnknownError when the answer has none).
C7_Step ==
  \A i \in Invs, resp \in OcrResponses :
    (resp.kind = "error" /\ OcrResponse(i, resp)) =>
      /\ pc'[i] = "done"
      /\ Len(replies'[i]) = 1
      /\ IsInfix(<<MsgOcrFailedPrefix, " ">>
                   \o (IF resp.has_msg THEN resp.msg ELSE <<MsgUnknownError>>),
                 replies'[i][1])

C7_ProviderErrorSurfaced == [][C7_Step]_vars

\* An invocation has replied with the provider's message.
C7_Witness ==
  \E i \in Invs, m \in ErrMsgs :
    /\ pc[i] = "done" /\ nOcrReq[i] = 1
    /\ IsInfix(<<MsgOcrFailedPrefix, " ">> \o m, replies[i][1])

\* ---------------------------------------------------------------------- C8
\* The step in which get_access_token returns None to _perform_ocr: the
\* keys are not configured, or the exchange did not succeed.
GetsNoToken(i) ==
  \/ ~(api_key /\ secret_key) /\ CallsGetToken(i)
  \/ \E resp \in TokenResponses : resp.kind # "ok" /\ TokenResponse(i, resp)

\* C8: if get_access_token gives no token, nothing is sent to the
\* recognition endpoint and the handler's one reply contains MsgAuthFailed;
\* a request to the recognition endpoint always carries a token.
C8_Step ==
  \A i \in Invs :
    GetsNoToken(i) =>
      /\ pc'[i] = "done"
      /\ nOcrReq'[i] = nOcrReq[i]
      /\ Len(replies'[i]) = 1
      /\ IsInfix(<<MsgAuthFailed>>, replies'[i][1])

C8_NoTokenNoRecognition ==
  /\ [][C8_Step]_vars
  /\ [](\A i \in Invs :
          /\ pc[i] = "ocr" => token[i] \in Tokens /\ nOcrReq[i] = 1
          /\ (pc[i] = "done" /\ IsInfix(<<MsgAuthFailed>>, replies[i][1])) =>
               nOcrReq[i] = 0)

\* With both keys configured, an invocation's exchange failed and it has
\* replied without a request to the recognition endpoint.
C8_Witness ==
  /\ api_key /\ secret_key
  /\ \E i \in Invs :
       /\ pc[i] = "done" /\ nTokenReq[i] = 1 /\ nOcrReq[i] = 0
       /\ IsInfix(<<MsgAuthFailed>>, replies[i][1])

\* ---------------------------------------------------------------------- C9
\* An answer of the recognition endpoint from which no text comes: no or an
\* empty words_result, words of white space only, or an exception.
BlankAnswer(resp) ==
  \/ resp.kind \in {"nowords", "exc"}
  \/ /\ resp.kind = "words"
     /\ \A k \in 1..Len(resp.words) :
          \A c \in 1..Len(resp.words[k]) : IsWs(resp.words[k][c])

\* C9: whenever recognition yields an empty or blank text (no words, or
\* an exception inside _perform_ocr: of the answer, or of reading the
\* temporary file) the handler's one reply is MsgNoText: not the success
\* reply, and not the reply of the handler's except clause, which the
\* exception does not reach.
C9_Step ==
  \A i \in Invs :
    /\ \A resp \in OcrResponses :
         (BlankAnswer(resp) /\ OcrResponse(i, resp)) =>
           pc'[i] = "done" /\ replies'[i] = <<<<MsgNoText>>>>
    /\ \A resp \in TokenResponses :
         (resp.kind = "ok" /\ ~Exists(fs, temp_path[i]) /\ TokenResponse(i, resp)) =>
           pc'[i] = "done" /\ replies'[i] = <<<<MsgNoText>>>>

C9_BlankTextNoTextReply == [][C9_Step]_vars

\* One invocation got a blank answer; the other got its token but could not
\* read its temporary file, which a cleanup task had deleted.
C9_Witness ==
  \E i, j \in Invs :
    /\ pc[i] = "done" /\ replies[i] = <<<<MsgNoText>>>> /\ nOcrReq[i] = 1
    /\ pc[j] = "done" /\ replies[j] = <<<<MsgNoText>>>>
    /\ nTokenReq[j] = 1 /\ nOcrReq[j] = 0


\* --------------------------------------------------------------------- C10
\* A step of invocation i that an external call's return or exception
\* triggers.
StepOf(i) ==
  \/ \E o \in ConvertOutcomes, w \in WriteOutcomes : ConvertReturns(i, o, w)
  \/ \E o \in GetImageOutcomes, w \in WriteOutcomes : GetImageReturns(i, o, w)
  \/ \E resp \in TokenResponses : TokenResponse(i, resp)
  \/ \E resp \in OcrResponses : OcrResponse(i, resp)

\* How far the handler has come.  "raise" is where an exception that leaves
\* the handler would leave it.
Rank(p) ==
  CASE p = "idle" -> 0
    [] p = "convert" -> 1
    [] p = "get_image" -> 2
    [] p = "token" -> 3
    [] p = "ocr" -> 4
    [] p = "done" -> 5
    [] OTHER -> 6

\* C10: an invocation that has started is, until it has replied, always
\* waiting for one external call, whose return or exception takes it on, and
\* every step takes it strictly nearer to its end: it ends after at most one
\* download, one token exchange and one recognition request.  When it has
\* ended it has yielded exactly one reply, before that none, and no exception
\* has left the handler.
C10_State ==
  \A i \in Invs :
    /\ Rank(pc[i]) <= 5
    /\ pc[i] \in {"convert", "get_image", "token", "ocr"} => ENABLED StepOf(i)
    /\ Len(replies[i]) = IF pc[i] = "done" THEN 1 ELSE 0
    /\ nDownload[i] <= 1 /\ nTokenReq[i] <= 1 /\ nOcrReq[i] <= 1

C10_Step ==
  \A i \in Invs :
    /\ pc'[i] # pc[i] => Rank(pc'[i]) > Rank(pc[i])
    /\ (StepOf(i) \/ \E ev \in Events : OcrCommand(i, ev)) => pc'[i] # pc[i]

InFlight(i) == pc[i] \in {"convert", "get_image", "token", "ocr"}

\* C11: the cleanup task is created in the very step in which the handler
\* yields its reply and is not awaited: it is due CleanupDelay seconds later,
\* so a file is only ever deleted by the cleanup task of an invocation that
\* has already replied; a cleanup step changes no invocation's position or
\* replies; and a handler in flight has no cleanup task of its own and can
\* always take its next step, whatever the cleanup tasks do.
C11_Step ==
  /\ \A p \in Paths :
       (fs[p] # NoFile /\ fs'[p] = NoFile) =>
         \E i \in Invs :
           /\ task[i].st = "sleeping" /\ task'[i].st = "finished"
           /\ p \in PathSet(task[i].paths)
           /\ now >= task[i].wake
           /\ pc[i] = "done" /\ Len(replies[i]) = 1
  /\ \A i \in Invs :
       (task[i].st = "none" /\ task'[i].st # "none") =>
         /\ task'[i].st = "sleeping"
         /\ task'[i].wake = now + CleanupDelay
         /\ pc[i] # "done" /\ pc'[i] = "done"
         /\ Len(replies'[i]) = 1
  /\ \A i \in Invs :
       (\E failed \in SUBSET PathSet(task[i].paths) : CleanupFiles(i, failed)) =>
         UNCHANGED <<pc, replies>>

C11_ReplyBeforeCleanup ==
  /\ [][C11_Step]_vars
  /\ [](\A i \in Invs :
          /\ InFlight(i) => task[i].st = "none" /\ ENABLED StepOf(i)
          /\ task[i].st # "none" => pc[i] = "done" /\ Len(replies[i]) = 1)

\* The cleanup task of an invocation that has replied has run and deleted
\* its files while the other invocation is still waiting for an answer.
C11_Witness ==
  \E i, j \in Invs :
    /\ pc[i] = "done" /\ Len(replies[i]) = 1 /\ task[i].st = "finished"
    /\ \A p \in Paths : fs[p] = NoFile
    /\ InFlight(j)

\* --------------------------------------------------------------------- C12
\* C12: a run of cleanup_files always returns normally (the task finishes),
\* whichever unlinks fail.  It removes every listed path whose unlink does
\* not fail and touches nothing else, so one failed deletion does not keep
\* any other path from being deleted; on a list whose paths are all gone
\* already (deleted by an earlier run over the same paths, as by the other
\* invocation's task) it changes nothing, so that running twice leaves what
\* running once leaves.
C12_Step ==
  \A i \in Invs :
    \A failed \in SUBSET PathSet(task[i].paths) :
      CleanupFiles(i, failed) =>
        /\ task'[i].st = "finished"
        /\ \A p \in Paths :
             IF p \in PathSet(task[i].paths) \ failed
             THEN fs'[p] = NoFile
             ELSE fs'[p] = fs[p]
        /\ (\A p \in PathSet(task[i].paths) : fs[p] = NoFile) => fs' = fs
        /\ \A j \in Invs :
             \* what a second task over the same paths still has to do
             (j # i /\ failed = {} /\ task[j].st = "sleeping"
                /\ PathSet(task[j].paths) = PathSet(task[i].paths)) =>
               \A p \in PathSet(task[j].paths) : fs'[p] = NoFile

C12_CleanupNeverRaises ==
  /\ [][C12_Step]_vars
  /\ [](\A i \in Invs : task[i].st \in {"none", "sleeping", "finished"})

\* Both invocations downloaded in the first second and were answered with a
\* text, so the cleanup tasks of both were created over the same temporary
\* path; both have run, the second over a path the first had already
\* deleted, and no file is left.
C12_Witness ==
  /\ now = 1 + CleanupDelay
  /\ \A i \in Invs :
       /\ task[i].st = "finished"
       /\ nOcrReq[i] = 1
       /\ IsInfix(<<"B">>, replies[i][1])
  /\ \A p \in Paths : fs[p] = NoFile

\* --------------------------------------------------------------------- C13
\* The words fields the recognition endpoint may answer with, and the
\* results they come in, up to MaxWords elements.
NormWords ==
  {<<>>, <<"A">>, <<"B">>, <<" ">>, <<"\n">>, <<" ", "B">>, <<"A", " ">>}

NormWordLists == UNION {[1..n -> NormWords] : n \in 0..MaxWords}

WordsResponse(ws) ==
  [kind |-> "words", has_msg |-> FALSE, msg |-> <<>>, words |-> ws]

\* Invocation 1 has downloaded its image, has been served the token that
\* initialize() fetched, and waits for the answer of the recognition
\* endpoint (main.py:148-149).
NormInit ==
  /\ api_key = TRUE
  /\ secret_key = TRUE
  /\ access_token = "tokA"
  /\ token_expire_time = 3
  /\ now = 1
  /\ fs = [p \in Paths |-> IF p \in {Orig("f1"), Tmp(1)} THEN "f1" ELSE NoFile]
  /\ pc = [p \in Procs |-> IF p = 0 THEN "done" ELSE IF p = 1 THEN "ocr" ELSE "idle"]
  /\ messages = [i \in Invs |-> IF i = 1 THEN <<"f1">> ELSE <<>>]
  /\ temp_path = [i \in Invs |-> IF i = 1 THEN Tmp(1) ELSE NoPath]
  /\ original_path = [i \in Invs |-> IF i = 1 THEN Orig("f1") ELSE NoPath]
  /\ token = [i \in Invs |-> IF i = 1 THEN "tokA" ELSE None]
  /\ replies = [i \in Invs |-> <<>>]
  /\ task = [i \in Invs |-> NoTask]
  /\ nDownload = [i \in Invs |-> IF i = 1 THEN 1 ELSE 0]
  /\ nTokenReq = [p \in Procs |-> IF p = 0 THEN 1 ELSE 0]
  /\ nOcrReq = [i \in Invs |-> IF i = 1 THEN 1 ELSE 0]

\* The endpoint answers with a result list.
NormNext == \E ws \in NormWordLists : OcrResponse(1, WordsResponse(ws))

NormSpec == NormInit /\ [][NormNext]_vars

\* The lines of a text: its parts between newlines.
RECURSIVE SplitLines(_)
SplitLines(s) ==
  IF \A k \in 1..Len(s) : s[k] # "\n" THEN <<s>>
  ELSE LET k == CHOOSE k \in 1..Len(s) :
                  s[k] = "\n" /\ \A m \in 1..(k - 1) : s[m] # "\n"
       IN  <<SubSeq(s, 1, k - 1)>> \o SplitLines(SubSeq(s, k + 1, Len(s)))

IsBlankLine(l) == \A k \in 1..Len(l) : IsWs(l[k])

\* The atoms of a text that are not white space, in their order.
Ink(s) == SelectSeq(s, LAMBDA c : ~IsWs(c))

RECURSIVE Concat(_)
Concat(ws) == IF ws = <<>> THEN <<>> ELSE ws[1] \o Concat(Tail(ws))

\* What the claim says of the text returned for the result list ws.
C13_Text(ws, t) ==
  LET kept == SelectSeq(SplitLines(Join(ws)), LAMBDA l : ~IsBlankLine(l))
  IN  /\ t # <<>> => ~IsWs(t[1]) /\ ~IsWs(t[Len(t)])
      /\ t # <<>> =>
           \A k \in 1..Len(SplitLines(t)) : ~IsBlankLine(SplitLines(t)[k])
      /\ Ink(t) = Ink(Concat(ws))
      /\ Len(SplitLines(t)) = IF kept = <<>> THEN 1 ELSE Len(kept)
      /\ \A k \in 1..Len(kept) :
           \* only the first line's head and the last line's tail are trimmed
           SplitLines(t)[k] =
             (IF k = 1 THEN LStrip(IF k = Len(kept) THEN RStrip(kept[k]) ELSE kept[k])
              ELSE IF k = Len(kept) THEN RStrip(kept[k]) ELSE kept[k])

\* C13: for an answer with a result list, the text _perform_ocr returns is
\* the words in response order, one per line, without any blank (empty or
\* white-space only) line and without leading or trailing white space; the
\* handler replies with it after the success prefix, or with MsgNoText when
\* nothing is left.  Words A, B give "A\nB", and "A\n\n\nB" gives "A\nB".
C13_State ==
  /\ pc[1] = "ocr" =>
       \A ws \in NormWordLists : C13_Text(ws, OcrText(WordsResponse(ws)))
  /\ OcrText(WordsResponse(<< <<"A">>, <<"B">> >>)) = <<"A", "\n", "B">>
  /\ OcrText(WordsResponse(<< <<"A", "\n", "\n", "\n", "B">> >>))
       = <<"A", "\n", "B">>
  /\ OcrText(WordsResponse(<< <<"A">>, <<>>, <<>>, <<"B">> >>))
       = <<"A", "\n", "B">>

C13_Step ==
  (pc[1] = "ocr" /\ pc'[1] = "done") =>
    /\ Len(replies'[1]) = 1
    /\ LET r == replies'[1][1]
           t == SubSeq(r, 3, Len(r))
       IN  \/ r = <<MsgNoText>>
           \/ /\ SubSeq(r, 1, 2) = <<MsgSuccessPrefix, "\n">>
              /\ t # <<>> /\ ~IsWs(t[1]) /\ ~IsWs(t[Len(t)])
              /\ \A k \in 1..Len(SplitLines(t)) : ~IsBlankLine(SplitLines(t)[k])
              /\ \E ws \in NormWordLists : Ink(Concat(ws)) = Ink(t)

C13_TextNormalized == []C13_State /\ [][C13_Step]_vars

\* The reply to a result whose lines were separated by a run of blank lines
\* and carried white space of their own.
C13_Witness ==
  /\ pc[1] = "done"
  /\ replies[1] = << <<MsgSuccessPrefix, "\n", "A", " ", "\n", " ", "B">> >>

\* --------------------------------------------------------------------- C14
\* C14: on an event with image attachments the handler calls download_image
\* once, for the first image in message order, and never again; it sends at
\* most one recognition request.  Its steps write no file but its temporary
\* copy and the platform's file of that first image, and its cleanup task is
\* created over no other path: the files of further attachments are neither
\* fetched nor read nor deleted.
C14_Step ==
  \A i \in Invs :
    /\ \A ev \in Events :
         (~NoImageAttachment(ev) /\ OcrCommand(i, ev)) =>
           /\ nDownload'[i] = nDownload[i] + 1
           /\ pc'[i] = "convert"
           /\ messages'[i] = ev
    /\ StepOf(i) =>
         LET first == Images(messages[i])[1]
             own == {Tmp(now), Orig(first)}
         IN  /\ nDownload'[i] = nDownload[i]
             /\ \A p \in Paths : fs'[p] # fs[p] => p \in own /\ fs'[p] \in {first, Partial}
             /\ pc'[i] \in {"token", "ocr"} =>
                  /\ temp_path'[i] = IF pc[i] = "token" THEN temp_path[i] ELSE Tmp(now)
                  /\ original_path'[i] = Orig(first)
             /\ task'[i] # task[i] =>
                  PathSet(task'[i].paths) \subseteq (own \cup {temp_path[i]})
             /\ CallsGetToken(i) => fs'[Tmp(now)] = first /\ fs'[Orig(first)] = first

C14_FirstImageOnly ==
  /\ [][C14_Step]_vars
  /\ [](\A i \in Invs : nDownload[i] <= 1 /\ nOcrReq[i] <= 1)

\* An invocation on an event with two images has sent the bytes of the
\* first, f2, to the recognition endpoint; no file of the second, f1, exists.
C14_Witness ==
  \E i \in Invs :
    /\ messages[i] = <<Plain, "f2", "f1">>
    /\ pc[i] = "ocr" /\ nDownload[i] = 1 /\ nOcrReq[i] = 1
    /\ fs[temp_path[i]] = "f2" /\ fs[Orig("f2")] = "f2"
    /\ fs[Orig("f1")] = NoFile

\* --------------------------------------------------------------------- C15
\* C15: the temporary paths of two invocations in flight are distinct; the
\* bytes an invocation's recognition reads from its temporary file (lines
\* 131-132) are the bytes of the image that invocation downloaded; and while
\* an invocation still has to read its temporary file (it waits for the token
\* endpoint), no step of another invocation or of a cleanup task changes or
\* deletes that file.
C15_Step ==
  \A i \in Invs :
    /\ (pc[i] # "ocr" /\ pc'[i] = "ocr") =>
         fs'[temp_path'[i]] = Images(messages[i])[1]
    /\ (pc[i] = "token" /\ pc'[i] = "token") =>
         fs'[temp_path[i]] = fs[temp_path[i]]

C15_ExclusiveTempFiles ==
  /\ [](\A i, j \in Invs :
          (i # j /\ temp_path[i] # NoPath) => temp_path[i] # temp_path[j])
  /\ [][C15_Step]_vars

\* --------------------------------------------------------------------- C16
\* C16: nothing excludes a second exchange while one is under way: a call of
\* get_access_token that finds the cache cold or expired sends its own
\* request also when another process is waiting for the token endpoint.
\* Every successful answer gives its caller the token of that answer (the
\* invocation goes on to recognition with it, or, its file being gone, ends
\* with MsgNoText: never with the authentication failure), and leaves in the
\* cache the token and the expiry of that answer, so that after two racing
\* exchanges the cache holds the pair of the one answered last.
C16_Step ==
  /\ \A i \in Invs :
       (Configured /\ ~CacheWarm /\ CallsGetToken(i)) =>
         pc'[i] = "token" /\ nTokenReq'[i] = nTokenReq[i] + 1
  /\ \A p \in Procs, resp \in TokenResponses :
       (resp.kind = "ok" /\ TokenResponse(p, resp)) =>
         /\ access_token' = resp.tok
         /\ token_expire_time' = now + resp.expires_in - RefreshMargin
         /\ p \in Invs =>
              IF Exists(fs, temp_path[p])
              THEN pc'[p] = "ocr" /\ token'[p] = resp.tok
              ELSE pc'[p] = "done" /\ replies'[p] = <<<<MsgNoText>>>>

C17_Step ==
  /\ now' >= now
  /\ \A p \in Procs, resp \in TokenResponses :
       (resp.kind = "ok" /\ TokenResponse(p, resp)) =>
         /\ token_expire_time' = now + resp.expires_in - RefreshMargin
         /\ resp.expires_in <= RefreshMargin => ~(now' < token_expire_time')
  /\ token_expire_time' # token_expire_time =>
       \E p \in Procs, resp \in TokenResponses :
         resp.kind = "ok" /\ TokenResponse(p, resp)
  /\ ((access_token' # None /\ now' < token_expire_time')
        /\ ~(access_token # None /\ now < token_expire_time)) =>
       \E p \in Procs, resp \in TokenResponses :
         /\ resp.kind = "ok" /\ resp.expires_in > RefreshMargin
         /\ TokenResponse(p, resp)
  /\ \A i \in Invs :
       (api_key /\ secret_key /\ CallsGetToken(i)) =>
         IF now >= token_expire_time
         THEN pc'[i] = "token" /\ nTokenReq'[i] = nTokenReq[i] + 1
         ELSE access_token # None =>
                /\ pc'[i] = "ocr" /\ token'[i] = access_token
                /\ now + RefreshMargin < token_expire_time + RefreshMargin
  /\ (api_key /\ secret_key /\ Initialize) => pc'[0] = "token"

C17_EarlyRefresh == [][C17_Step]_vars

\* initialize() got a token at second 1 with expires_in = RefreshMargin + 2;
\* one invocation was served it from the cache, and the other, calling at
\* second 3 or later, has sent a fresh request.
C17_Witness ==
  /\ nTokenReq[0] = 1
  /\ access_token \in Tokens /\ token_expire_time = 3
  /\ now >= token_expire_time
  /\ \E i, j \in Invs :
       /\ nTokenReq[j] = 0 /\ nOcrReq[j] = 1
       /\ pc[i] = "token" /\ nTokenReq[i] = 1

\* --------------------------------------------------------------------- C18
HasSuccessPrefix(r) == Len(r) >= 2 /\ SubSeq(r, 1, 2) = <<MsgSuccessPrefix, "\n">>

\* C18: a reply with the success prefix is yielded only in a step in which
\* the recognition endpoint answered without error code and the normalized
\* text is not empty; the steps in which get_access_token gives no token or
\* the endpoint answers with an error code yield no reply with that prefix.
C18_Step ==
  \A i \in Invs :
    /\ (Len(replies'[i]) > Len(replies[i])
          /\ HasSuccessPrefix(replies'[i][Len(replies'[i])])) =>
         \E resp \in OcrResponses :
           /\ resp.kind \in {"words", "nowords"}
           /\ OcrText(resp) # <<>>
           /\ OcrResponse(i, resp)
    /\ GetsNoToken(i) =>
         \A k \in 1..Len(replies'[i]) : ~HasSuccessPrefix(replies'[i][k])
    /\ \A resp \in OcrResponses :
         (resp.kind = "error" /\ OcrResponse(i, resp)) =>
           \A k \in 1..Len(replies'[i]) : ~HasSuccessPrefix(replies'[i][k])

C18_DisjointOutcomes == [][C18_Step]_vars

\* --------------------------------------------------------------------- C19
\* The program when no unlink fails (main.py:171), with the event loop
\* running every cleanup task that is due and the clock going on while a
\* task sleeps.
FairNext ==
  \/ Initialize
  \/ \E i \in Invs, ev \in Events : OcrCommand(i, ev)
  \/ \E i \in Invs, o \in ConvertOutcomes, w \in WriteOutcomes :
       ConvertReturns(i, o, w)
  \/ \E i \in Invs, o \in GetImageOutcomes, w \in WriteOutcomes :
       GetImageReturns(i, o, w)
  \/ \E p \in Procs, resp \in TokenResponses : TokenResponse(p, resp)
  \/ \E i \in Invs, resp \in OcrResponses : OcrResponse(i, resp)
  \/ \E i \in Invs : CleanupFiles(i, {})
  \/ Tick

FairSpec ==
  /\ Init
  /\ [][FairNext]_vars
  /\ WF_vars(Tick)
  /\ \A i \in Invs : WF_vars(CleanupFiles(i, {}))

\* No handler is in flight and no cleanup task is still to run.
Quiescent ==
  \A i \in Invs : pc[i] \in {"idle", "done"} /\ task[i].st # "sleeping"

TempPaths == {p \in Paths : p[1] = Tmp(1)[1]}

\* C19: when no unlink fails, every file download_image has created in the
\* temporary directory is deleted in the end: once all handlers have ended
\* and all cleanup tasks have run, no temporary file is left, whichever way
\* the handlers ended.  And a cleanup task deletes a temporary file only
\* after the recognition call of its own invocation has returned.
C19_Step ==
  \A i \in Invs :
    (\E failed \in SUBSET PathSet(task[i].paths) : CleanupFiles(i, failed)) =>
      pc[i] = "done"

C19_NoTempFileLeaks ==
  /\ [](Quiescent => \A p \in TempPaths : fs[p] = NoFile)
  /\ [][C19_Step]_vars

\* --------------------------------------------------------------------- C20
\* C20: access_token and token_expire_time change only together, in the
\* step of an answer with both access_token and expires_in, and to the values
\* of that answer; so the cache is either empty, (None, 0), or the pair of one
\* successful exchange.  A call of get_access_token that returns no token,
\* the one answered with an access_token but no expires_in included, leaves
\* both fields as they were.
C20_Step ==
  /\ (access_token' # access_token \/ token_expire_time' # token_expire_time) =>
       \E p \in Procs, resp \in TokenResponses :
         /\ resp.kind = "ok" /\ TokenResponse(p, resp)
         /\ access_token' = resp.tok
         /\ token_expire_time' = now + resp.expires_in - RefreshMargin
  /\ \A p \in Procs, resp \in TokenResponses :
       (resp.kind # "ok" /\ TokenResponse(p, resp)) =>
         /\ UNCHANGED <<access_token, token_expire_time>>
         /\ p \in Invs => pc'[p] = "done" /\ replies'[p] = <<AuthFailedReply>>

C20_CachePairAtomic ==
  /\ [](access_token = None <=> token_expire_time = 0)
  /\ [][C20_Step]_vars

=============================================================================
